---- MODULE Spec2Model ----
(***************************************************************************)
(* web-POS: the stock ledger, the credit accounts and the dashboard        *)
(* reconciliation, as the database triggers and the page handlers          *)
(* implement them.                                                         *)
(*                                                                         *)
(* The store is the Postgres schema under supabase/migrations; every       *)
(* statement the pages send runs as one transaction with its triggers.     *)
(* A session is one browser tab: it shows one page at a time, and a page   *)
(* keeps the rows it fetched when it was mounted or after its own last     *)
(* successful mutation.  Money is counted in whole units; ratios are exact *)
(* rationals.                                                              *)
(***************************************************************************)
EXTENDS Integers, Sequences, FiniteSets, TLC

\* ------------------------------------------------------------- bounds
MaxStock == 2      \* largest stock_quantity a product form submits
MaxQty == 2        \* largest quantity a sale form submits
MaxPrice == 2      \* largest selling_price a sale form submits
MaxSales == 2      \* sale rows inserted in one behaviour
MaxCredits == 2    \* credit rows inserted in one behaviour
MaxAdd == 1        \* largest additional_stock the add-stock form submits
MaxPay == 2        \* largest amount the payment dialog submits
MaxOwed == 2       \* largest amount_owed the credit edit form submits
StockSales == 1    \* sale rows inserted in one behaviour of SpecStock
MaxDay == 2        \* the days the clock runs through: 0..MaxDay
DaysPerYear == 2   \* the days of a calendar year
RankingSize == 10  \* the length of the product rankings (slice(0, 10))
MaxNames == 12     \* product names among the rows the rankings are computed of
MaxUsers == 2      \* accounts signed up in one behaviour
maxAttempts == 5   \* userApi.createUser: polls for the profile row

ProductIds == {"p1", "p2"}
Sessions == {"s1", "s2", "s3"}
Businesses == {"b1", "b2"}
Pages == {"sales", "products", "credits", "dashboard"}
FormMethods == {"cash", "mpesa", "bank", "credit"}
Statuses == {"unpaid", "partially_paid", "paid"}

VARIABLES
    products,       \* table products: id -> row
    sales,          \* table sales: id -> row
    credits,        \* table credits: id -> row
    nextSaleId,     \* ids are never reused
    nextCreditId,
    page,           \* the page each session shows
    cacheProducts,  \* Sales / Products page state `products`
    cacheSales,     \* Sales page state `sales`
    cacheCredits,   \* Credits page state `credits`
    salesData,      \* Dashboard: the rows fetchDashboardData read
    prevSalesWithCredits, \* Dashboard: the rows read of the window before
    metrics,        \* Dashboard page state `metrics`
    toast,          \* the last toast or form message a handler raised
    paidLedger,     \* per credit: sum of the payments acknowledged as recorded
    clock,          \* the calendar day `new Date()` and now() fall on
    dateRange,      \* Dashboard page state `dateRange`
    authUsers,      \* auth.users: the ids of the accounts that can sign in
    profiles,       \* table profiles: user_id -> row
    nextUserId,     \* user ids are never reused
    authSession,    \* the user the browser's supabase client is signed in as
    createUserCall  \* the call of userApi.createUser in progress

db == <<products, sales, credits, nextSaleId, nextCreditId>>
caches == <<page, cacheProducts, cacheSales, cacheCredits, salesData, prevSalesWithCredits,
           metrics, dateRange>>
ledgers == <<paidLedger>>
userVars == <<authUsers, profiles, nextUserId, authSession, createUserCall>>
vars == <<db, caches, toast, ledgers, clock, userVars>>

Empty == <<>>
NoMetrics == [fetched |-> FALSE]
NoRange == [from |-> 0, to |-> 0]

\* the account that registered business b1, and that the admin works under
Owner == 0
NoCall == [pc |-> "idle", user |-> 0, attempts |-> 0, result |-> "none"]

\* role of the profile each session is signed in with: the first user of a
\* business is its admin
Role(s) == IF s = "s2" THEN "user" ELSE "admin"

\* get_current_user_business_id: s1 and s2 work for one business, s3 for another
Business(s) == IF s = "s3" THEN "b2" ELSE "b1"

\* the SELECT policies: the rows of a table a session's queries see
VisibleTo(s, table) ==
    [i \in {x \in DOMAIN table : table[x].business_id = Business(s)} |-> table[i]]

\* ------------------------------------------------------------- rationals
RECURSIVE GCD(_, _)
GCD(a, b) == IF b = 0 THEN a ELSE GCD(b, a % b)

Abs(n) == IF n < 0 THEN -n ELSE n

\* n / d with d > 0, in lowest terms
Rat(n, d) ==
    LET g == GCD(Abs(n), d)
    IN  [n |-> n \div g, d |-> d \div g]

RatInt(n) == [n |-> n, d |-> 1]
RatAdd(a, b) == Rat(a.n * b.d + b.n * a.d, a.d * b.d)
RatSub(a, b) == Rat(a.n * b.d - b.n * a.d, a.d * b.d)
RatMul(a, b) == Rat(a.n * b.n, a.d * b.d)
RatGeq(a, b) == a.n * b.d >= b.n * a.d

\* ------------------------------------------------------------- triggers
KeepSuppliedTotal(new) == new

\* calculate_sale_total_price: BEFORE INSERT OR UPDATE ON sales
calculate_sale_total_price(new) ==
    [new EXCEPT !.total_price = new.quantity * new.selling_price]

\* sales_payment_method_check, as the last migration leaves it
sales_payment_method_check(new) ==
    new.payment_method \in {"cash", "mpesa", "bank_cheque", "credit"}

KeepSubmittedStatus(new) == new

\* update_credit_status: BEFORE UPDATE ON credits
update_credit_status(new) ==
    [new EXCEPT !.status =
        IF new.amount_paid >= new.amount_owed THEN "paid"
        ELSE IF new.amount_paid > 0 THEN "partially_paid"
        ELSE "unpaid"]

\* update_product_stock_on_sale, TG_OP = 'INSERT': the UPDATE of products
StockOnInsert(prods, new) ==
    [prods EXCEPT ![new.product_id].stock_quantity = @ - new.quantity]

UpdateSubtractsOnly(prods, old, new) ==
    [prods EXCEPT ![new.product_id].stock_quantity = @ - new.quantity]

\* update_product_stock_on_sale, TG_OP = 'UPDATE': the two UPDATEs of products
StockOnUpdate(prods, old, new) ==
    LET restored == [prods EXCEPT ![old.product_id].stock_quantity = @ + old.quantity]
    IN  [restored EXCEPT ![new.product_id].stock_quantity = @ - new.quantity]

DeleteRestoresNothing(prods, old) == prods

\* update_product_stock_on_sale, TG_OP = 'DELETE'
StockOnDelete(prods, old) ==
    [prods EXCEPT ![old.product_id].stock_quantity = @ + old.quantity]

NoStockCheck(prods, new) == FALSE

\* the trigger's check after its UPDATEs: RAISE EXCEPTION when this holds
StockWentNegative(prods, new) ==
    prods[new.product_id].stock_quantity < 0

KeepPartialWrites(before, after) == after

\* RAISE EXCEPTION aborts the statement: the rows are those before it
RolledBack(before, after) == before

\* ------------------------------------------------------------- fetches
\* fetchProducts: the rows the page keeps (the columns its handlers read)
FetchProductsOf(prods) == [p \in DOMAIN prods |-> prods[p].stock_quantity]

\* fetchSales: id -> the columns handleSubmit reads of editingSale
FetchSalesOf(sls) ==
    [i \in DOMAIN sls |-> [product_id |-> sls[i].product_id, quantity |-> sls[i].quantity]]

\* fetchCredits: id -> the columns handlePayment reads of selectedCredit
FetchCreditsOf(crs) ==
    [c \in DOMAIN crs |-> [amount_owed |-> crs[c].amount_owed, amount_paid |-> crs[c].amount_paid]]

\* ------------------------------------------------------------- statements
\* INSERT INTO sales: BEFORE trigger, CHECK constraint, AFTER trigger
InsertSale(prods, sls, id, saleData) ==
    LET new == calculate_sale_total_price(saleData)
        after == StockOnInsert(prods, new)
    IN  IF ~sales_payment_method_check(new)
        THEN [error |-> "StorageError", products |-> prods, sales |-> sls]
        ELSE IF StockWentNegative(after, new)
        THEN [error |-> "InsufficientStock",
              products |-> RolledBack(prods, after), sales |-> sls]
        ELSE [error |-> "none", products |-> after, sales |-> sls @@ (id :> new)]

\* UPDATE sales ... WHERE id = id: no row matched is no error
UpdateSale(prods, sls, id, saleData) ==
    IF id \notin DOMAIN sls
    THEN [error |-> "none", products |-> prods, sales |-> sls]
    ELSE
        LET old == sls[id]
            new == calculate_sale_total_price(saleData)
            after == StockOnUpdate(prods, old, new)
        IN  IF ~sales_payment_method_check(new)
            THEN [error |-> "StorageError", products |-> prods, sales |-> sls]
            ELSE IF StockWentNegative(after, new)
            THEN [error |-> "InsufficientStock",
                  products |-> RolledBack(prods, after), sales |-> sls]
            ELSE [error |-> "none", products |-> after,
                  sales |-> [sls EXCEPT ![id] = new]]

\* INSERT INTO credits: sale_id REFERENCES sales(id); amount_paid and status
\* take the column defaults (update_credit_status fires BEFORE UPDATE only)
InsertCredit(sls, crs, id, creditData) ==
    IF creditData.sale_id \notin DOMAIN sls
    THEN [error |-> "StorageError", credits |-> crs]
    ELSE [error |-> "none",
          credits |-> crs @@ (id :> [business_id |-> creditData.business_id,
                                      sale_id |-> creditData.sale_id,
                                      amount_owed |-> creditData.amount_owed,
                                      amount_paid |-> 0,
                                      status |-> "unpaid"])]

\* the two messages that report insufficient stock: handleSubmit's own
\* (line 203) and the trigger's exception
InsufficientStock(msg) == msg \in {"InsufficientStockAvailable", "InsufficientStock"}

\* ------------------------------------------------------------- Sales page
SchemaWithoutRefine(data) ==
    /\ data.quantity >= 1
    /\ data.selling_price >= 0
    /\ data.payment_method \in FormMethods

\* saleSchema: what zodResolver lets through to handleSubmit
saleSchema(data) ==
    /\ data.quantity >= 1
    /\ data.selling_price >= 0
    /\ data.payment_method \in FormMethods
    /\ (data.payment_method = "credit" => data.credit_fields)

\* handleSubmit, lines 191-206: the stock check against the page's own rows
effectiveAvailable(s, e, data) ==
    cacheProducts[s][data.product_id]
        + (IF e # 0 /\ cacheSales[s][e].product_id = data.product_id
           THEN cacheSales[s][e].quantity ELSE 0)

\* handleSubmit: e = 0 records a new sale, otherwise e is editingSale.id.
\* The result names the toast and the tables as the handler leaves them.
handleSubmit(s, e, data) ==
    LET saleData == [business_id |-> Business(s),
                     product_id |-> data.product_id,
                     quantity |-> data.quantity,
                     selling_price |-> data.selling_price,
                     total_price |-> 0,
                     payment_method |-> data.payment_method,
                     sale_date |-> clock]
        unchanged == [products |-> products, sales |-> sales, credits |-> credits,
                      saved |-> FALSE, saleId |-> e, creditAdded |-> FALSE]
    IN  IF data.quantity > effectiveAvailable(s, e, data)
        THEN unchanged @@ [toast |-> "InsufficientStockAvailable"]
        ELSE
            LET saleId == IF e # 0 THEN e ELSE nextSaleId
                st == IF e # 0 THEN UpdateSale(products, sales, e, saleData)
                      ELSE InsertSale(products, sales, nextSaleId, saleData)
            IN  IF st.error # "none"
                THEN [unchanged EXCEPT !.products = st.products, !.sales = st.sales]
                        @@ [toast |-> st.error]
                ELSE
                    IF data.payment_method = "credit" /\ data.credit_fields
                    THEN
                        LET cr == IF data.creditError
                                  THEN [error |-> "RequestFailed", credits |-> credits]
                                  ELSE InsertCredit(st.sales, credits, nextCreditId,
                                    [business_id |-> Business(s),
                                     sale_id |-> saleId,
                                     amount_owed |-> data.quantity * data.selling_price])
                        IN  [products |-> st.products, sales |-> st.sales,
                             credits |-> cr.credits, saved |-> TRUE, saleId |-> saleId,
                             creditAdded |-> (cr.error = "none"),
                             toast |-> IF cr.error # "none" THEN "CreditWarning"
                                       ELSE IF e # 0 THEN "SaleUpdated" ELSE "SaleRecorded"]
                    ELSE [products |-> st.products, sales |-> st.sales,
                          credits |-> credits, saved |-> TRUE, saleId |-> saleId,
                          creditAdded |-> FALSE,
                          toast |-> IF e # 0 THEN "SaleUpdated" ELSE "SaleRecorded"]

\* The form is submitted: zod validation, then handleSubmit, then the
\* refetches of lines 265-269 when nothing was thrown.  creditError says
\* whether the request that inserts the credit row comes back with an error
\* of the transport or the server (line 250).
SubmitSaleForm(s, e, p, q, pr, m, cf, creditError) ==
    LET data == [product_id |-> p, quantity |-> q, selling_price |-> pr,
                 payment_method |-> m, credit_fields |-> cf,
                 creditError |-> creditError]
    IN  /\ page[s] = "sales"
        /\ e = 0 \/ e \in DOMAIN cacheSales[s]
        /\ p \in DOMAIN cacheProducts[s]
        /\ e = 0 => nextSaleId <= MaxSales
        /\ (m = "credit" /\ cf) => nextCreditId <= MaxCredits
        /\ IF ~saleSchema(data)
           THEN /\ toast' = "ValidationError"
                /\ UNCHANGED <<db, caches, ledgers, clock, userVars>>
           ELSE LET r == handleSubmit(s, e, data)
                IN  /\ toast' = r.toast
                    /\ products' = r.products
                    /\ sales' = r.sales
                    /\ credits' = r.credits
                    /\ nextSaleId' = IF r.saved /\ e = 0 THEN nextSaleId + 1 ELSE nextSaleId
                    /\ nextCreditId' = IF r.creditAdded THEN nextCreditId + 1 ELSE nextCreditId
                    /\ cacheSales' = IF r.saved
                                     THEN [cacheSales EXCEPT ![s] = FetchSalesOf(VisibleTo(s, r.sales))]
                                     ELSE cacheSales
                    /\ cacheProducts' = IF r.saved
                                        THEN [cacheProducts EXCEPT ![s] = FetchProductsOf(VisibleTo(s, r.products))]
                                        ELSE cacheProducts
                    /\ UNCHANGED <<page, cacheCredits, salesData, prevSalesWithCredits, metrics, dateRange, paidLedger, clock, userVars>>

\* the form submitted while every request gets its answer from the store
SaleSubmit(s, e, p, q, pr, m, cf) == SubmitSaleForm(s, e, p, q, pr, m, cf, FALSE)

\* DELETE FROM sales: the AFTER DELETE trigger restores the stock and the
\* foreign key of credits cascades.  RLS lets only an admin's delete match.
DeleteSale(prods, sls, crs, id, role) ==
    IF id \notin DOMAIN sls \/ role # "admin"
    THEN [products |-> prods, sales |-> sls, credits |-> crs]
    ELSE [products |-> StockOnDelete(prods, sls[id]),
          sales |-> [i \in DOMAIN sls \ {id} |-> sls[i]],
          credits |-> [c \in {x \in DOMAIN crs : crs[x].sale_id # id} |-> crs[c]]]

\* handleDeleteConfirm and handleDelete: the role check, the delete, fetchSales
SaleDelete(s, id) ==
    /\ page[s] = "sales"
    /\ id \in DOMAIN cacheSales[s]
    /\ IF Role(s) # "admin"
       THEN /\ toast' = "AccessDenied"
            /\ UNCHANGED <<db, caches, ledgers, clock, userVars>>
       ELSE LET r == DeleteSale(products, sales, credits, id, Role(s))
            IN  /\ toast' = "SaleDeleted"
                /\ products' = r.products
                /\ sales' = r.sales
                /\ credits' = r.credits
                /\ cacheSales' = [cacheSales EXCEPT ![s] = FetchSalesOf(VisibleTo(s, r.sales))]
                /\ UNCHANGED <<nextSaleId, nextCreditId, page, cacheProducts, cacheCredits,
                               salesData, prevSalesWithCredits, metrics, dateRange, paidLedger, clock, userVars>>

\* ------------------------------------------------------------- Products page
\* the id the next inserted product gets
NewProductId == IF "p1" \notin DOMAIN products THEN "p1" ELSE "p2"

\* handleStockSubmit: stock_quantity is written as the page's own row plus
\* additional_stock, then fetchProducts
StockSubmit(s, p, add) ==
    /\ page[s] = "products"
    /\ p \in DOMAIN cacheProducts[s]
    /\ cacheProducts[s][p] + add <= MaxStock + 1
    /\ products' = [products EXCEPT ![p].stock_quantity = cacheProducts[s][p] + add]
    /\ cacheProducts' = [cacheProducts EXCEPT ![s] = FetchProductsOf(VisibleTo(s, products'))]
    /\ toast' = "StockAdded"
    /\ UNCHANGED <<sales, credits, nextSaleId, nextCreditId, page, cacheSales,
                   cacheCredits, salesData, prevSalesWithCredits, metrics, dateRange, paidLedger, clock, userVars>>

\* confirmSubmit with editingProduct = e: the form's stock_quantity and
\* buying_price are written as given, then fetchProducts
ProductEdit(s, e, stock, bp) ==
    /\ page[s] = "products"
    /\ e \in DOMAIN cacheProducts[s]
    /\ products' = [products EXCEPT ![e].stock_quantity = stock, ![e].buying_price = bp]
    /\ cacheProducts' = [cacheProducts EXCEPT ![s] = FetchProductsOf(VisibleTo(s, products'))]
    /\ toast' = "ProductUpdated"
    /\ UNCHANGED <<sales, credits, nextSaleId, nextCreditId, page, cacheSales,
                   cacheCredits, salesData, prevSalesWithCredits, metrics, dateRange, paidLedger, clock, userVars>>

\* confirmSubmit with editingProduct = null: a new product row
ProductCreate(s, stock, bp) ==
    /\ page[s] = "products"
    /\ DOMAIN products # ProductIds
    /\ products' = products @@ (NewProductId :> [business_id |-> Business(s),
                                                  stock_quantity |-> stock,
                                                  buying_price |-> bp])
    /\ cacheProducts' = [cacheProducts EXCEPT ![s] = FetchProductsOf(VisibleTo(s, products'))]
    /\ toast' = "ProductCreated"
    /\ UNCHANGED <<sales, credits, nextSaleId, nextCreditId, page, cacheSales,
                   cacheCredits, salesData, prevSalesWithCredits, metrics, dateRange, paidLedger, clock, userVars>>

\* DELETE FROM products: the policy lets only an admin's delete match; the
\* sales of the product go with it (ON DELETE CASCADE) and their credits
DeleteProduct(prods, sls, crs, p, role) ==
    IF p \notin DOMAIN prods \/ role # "admin"
    THEN [products |-> prods, sales |-> sls, credits |-> crs]
    ELSE LET gone == {i \in DOMAIN sls : sls[i].product_id = p}
         IN  [products |-> [x \in DOMAIN prods \ {p} |-> prods[x]],
              sales |-> [i \in DOMAIN sls \ gone |-> sls[i]],
              credits |-> [c \in {x \in DOMAIN crs : crs[x].sale_id \notin gone} |-> crs[c]]]

\* handleDeleteClick and confirmDelete: the role check, the delete, fetchProducts
ProductDelete(s, p) ==
    /\ page[s] = "products"
    /\ p \in DOMAIN cacheProducts[s]
    /\ IF Role(s) # "admin"
       THEN /\ toast' = "AccessDenied"
            /\ UNCHANGED <<db, caches, ledgers, clock, userVars>>
       ELSE LET r == DeleteProduct(products, sales, credits, p, Role(s))
            IN  /\ toast' = "ProductDeleted"
                /\ products' = r.products
                /\ sales' = r.sales
                /\ credits' = r.credits
                /\ cacheProducts' = [cacheProducts EXCEPT ![s] =
                                        FetchProductsOf(VisibleTo(s, r.products))]
                /\ UNCHANGED <<nextSaleId, nextCreditId, page, cacheSales, cacheCredits,
                               salesData, prevSalesWithCredits, metrics, dateRange, paidLedger, clock, userVars>>

\* ------------------------------------------------------------- Credits page
\* UPDATE credits SET ... WHERE id = c, with its BEFORE UPDATE trigger
UpdateCredit(crs, c, new) ==
    IF c \notin DOMAIN crs THEN crs
    ELSE [crs EXCEPT ![c] = update_credit_status(new)]

\* handlePayment, lines 78-86: the amounts are those of selectedCredit
PaymentRejected(selectedCredit, amount) ==
    amount <= 0 \/ amount > selectedCredit.amount_owed - selectedCredit.amount_paid

\* handlePayment, lines 89-96: amount_paid is written as selectedCredit's plus amount
WritePayment(crs, c, selectedCredit, amount) ==
    IF c \notin DOMAIN crs THEN crs
    ELSE UpdateCredit(crs, c,
            [crs[c] EXCEPT !.amount_paid = selectedCredit.amount_paid + amount])

\* handlePayment
Payment(s, c, amount) ==
    /\ page[s] = "credits"
    /\ c \in DOMAIN cacheCredits[s]
    /\ IF PaymentRejected(cacheCredits[s][c], amount)
       THEN /\ toast' = "InvalidAmount"
            /\ UNCHANGED <<db, caches, ledgers, clock, userVars>>
       ELSE /\ credits' = WritePayment(credits, c, cacheCredits[s][c], amount)
            /\ cacheCredits' = [cacheCredits EXCEPT ![s] = FetchCreditsOf(VisibleTo(s, credits'))]
            /\ paidLedger' = [paidLedger EXCEPT ![c] = @ + amount]
            /\ toast' = "PaymentRecorded"
            /\ UNCHANGED <<products, sales, nextSaleId, nextCreditId, page, cacheProducts,
                           cacheSales, salesData, prevSalesWithCredits, metrics, dateRange, clock, userVars>>

\* handleEditConfirm: amount_owed and status are sent as the form holds them
EditAccount(s, c, owed, status) ==
    /\ page[s] = "credits"
    /\ c \in DOMAIN cacheCredits[s]
    /\ credits' = IF c \in DOMAIN credits
                  THEN UpdateCredit(credits, c,
                          [credits[c] EXCEPT !.amount_owed = owed, !.status = status])
                  ELSE credits
    /\ cacheCredits' = [cacheCredits EXCEPT ![s] = FetchCreditsOf(VisibleTo(s, credits'))]
    /\ toast' = "CreditUpdated"
    /\ UNCHANGED <<products, sales, nextSaleId, nextCreditId, page, cacheProducts,
                   cacheSales, salesData, prevSalesWithCredits, metrics, dateRange, ledgers, clock, userVars>>

\* handleDeleteConfirm: RLS lets the delete match only for an admin; a delete
\* that matches no row is no error
DeleteAccount(s, c) ==
    /\ page[s] = "credits"
    /\ c \in DOMAIN cacheCredits[s]
    /\ credits' = IF Role(s) = "admin"
                  THEN [x \in DOMAIN credits \ {c} |-> credits[x]]
                  ELSE credits
    /\ cacheCredits' = [cacheCredits EXCEPT ![s] = FetchCreditsOf(VisibleTo(s, credits'))]
    /\ toast' = "CreditDeleted"
    /\ UNCHANGED <<products, sales, nextSaleId, nextCreditId, page, cacheProducts,
                   cacheSales, salesData, prevSalesWithCredits, metrics, dateRange, ledgers, clock, userVars>>

\* ------------------------------------------------------------- Dashboard
\* the ids of S in ascending order
RECURSIVE Ascending(_)
Ascending(S) ==
    IF S = {} THEN <<>>
    ELSE LET m == CHOOSE x \in S : \A y \in S : x <= y
         IN  <<m>> \o Ascending(S \ {m})

\* the orders in which the store may return the embedded credits rows
CreditOrders == {o \in [1..Cardinality(DOMAIN credits) -> DOMAIN credits] :
                    \A i, j \in DOMAIN o : i # j => o[i] # o[j]}

\* the embedded `credits (amount_paid, amount_owed, status)` of one sale
EmbeddedCredits(s, order, id) ==
    LET mine == SelectSeq(order, LAMBDA c : /\ credits[c].sale_id = id
                                            /\ credits[c].business_id = Business(s))
    IN  [i \in DOMAIN mine |-> [amount_paid |-> credits[mine[i]].amount_paid,
                                amount_owed |-> credits[mine[i]].amount_owed]]

\* a calendar of DaysPerYear days a year: the month and day of a date as
\* format(date, "MMM dd") prints them, which drops the year
MonthDay(d) == d % DaysPerYear

\* .order("sale_date", { ascending: true }) over a set of sale ids; the rows
\* of one day follow in the order of their ids
RECURSIVE BySaleDate(_)
BySaleDate(S) ==
    IF S = {} THEN <<>>
    ELSE LET m == CHOOSE x \in S : \A y \in S :
                        \/ sales[x].sale_date < sales[y].sale_date
                        \/ sales[x].sale_date = sales[y].sale_date /\ x <= y
         IN  <<m>> \o BySaleDate(S \ {m})

\* the select of lines 800-825: one row per sale of the caller's business
\* whose sale_date lies between startOfDay(from) and endOfDay(to), with its
\* product and credits; an embedded product the caller may not see is null:
\* line 843 reads its buying_price as 0 and line 934 its name as
\* "Unknown Product".  Products are named by their ids.
SalesQuery(s, order, from, to) ==
    LET mine == VisibleTo(s, sales)
        ids == BySaleDate({i \in DOMAIN mine : /\ mine[i].sale_date >= from
                                                /\ mine[i].sale_date <= to})
    IN  [i \in DOMAIN ids |->
            [id |-> ids[i],
             quantity |-> sales[ids[i]].quantity,
             selling_price |-> sales[ids[i]].selling_price,
             total_price |-> sales[ids[i]].total_price,
             sale_date |-> sales[ids[i]].sale_date,
             payment_method |-> sales[ids[i]].payment_method,
             product |-> sales[ids[i]].product_id,
             name |->
                IF sales[ids[i]].product_id \in DOMAIN VisibleTo(s, products)
                THEN sales[ids[i]].product_id
                ELSE "Unknown Product",
             buying_price |->
                IF sales[ids[i]].product_id \in DOMAIN VisibleTo(s, products)
                THEN products[sales[ids[i]].product_id].buying_price
                ELSE 0,
             credits |-> EmbeddedCredits(s, order, ids[i])]]

\* line 846
saleProfit(sale) == (sale.selling_price - sale.buying_price) * sale.quantity

\* line 855
paymentPercentage(credit) ==
    IF credit.amount_owed > 0
    THEN Rat(credit.amount_paid, credit.amount_owed)
    ELSE RatInt(0)

ZeroMetrics ==
    [fetched |-> TRUE,
     totalSalesAmount |-> 0, totalProfit |-> 0,
     actualRevenue |-> RatInt(0), pendingRevenue |-> RatInt(0),
     actualProfit |-> RatInt(0), pendingProfit |-> RatInt(0),
     totalSalesCount |-> 0, paidSalesCount |-> 0, creditSalesCount |-> 0]

FallbackDropsPending(m, sale) ==
    [m EXCEPT !.totalSalesAmount = @ + sale.total_price,
              !.totalProfit = @ + saleProfit(sale),
              !.totalSalesCount = @ + 1,
              !.creditSalesCount = @ + 1]

\* lines 877-881: a credit sale without a credit record
AddFallback(m, sale) ==
    [m EXCEPT !.totalSalesAmount = @ + sale.total_price,
              !.totalProfit = @ + saleProfit(sale),
              !.totalSalesCount = @ + 1,
              !.pendingRevenue = RatAdd(@, RatInt(sale.total_price)),
              !.pendingProfit = RatAdd(@, RatInt(saleProfit(sale))),
              !.creditSalesCount = @ + 1]

CountsPaidAboveOne(pct) == ~RatGeq(RatInt(1), pct)

\* line 867
CountsAsPaid(pct) == RatGeq(pct, RatInt(1))

\* lines 851-871: a credit sale with a credit record
AddTracked(m, sale) ==
    LET pct == paymentPercentage(sale.credits[1])
        rest == RatSub(RatInt(1), pct)
    IN  [m EXCEPT !.totalSalesAmount = @ + sale.total_price,
                  !.totalProfit = @ + saleProfit(sale),
                  !.totalSalesCount = @ + 1,
                  !.actualRevenue = RatAdd(@, RatMul(RatInt(sale.total_price), pct)),
                  !.pendingRevenue = RatAdd(@, RatMul(RatInt(sale.total_price), rest)),
                  !.actualProfit = RatAdd(@, RatMul(RatInt(saleProfit(sale)), pct)),
                  !.pendingProfit = RatAdd(@, RatMul(RatInt(saleProfit(sale)), rest)),
                  !.paidSalesCount = @ + (IF CountsAsPaid(pct) THEN 1 ELSE 0),
                  !.creditSalesCount = @ + (IF CountsAsPaid(pct) THEN 0 ELSE 1)]

\* lines 872-876: a sale that is not on credit
AddSettled(m, sale) ==
    [m EXCEPT !.totalSalesAmount = @ + sale.total_price,
              !.totalProfit = @ + saleProfit(sale),
              !.totalSalesCount = @ + 1,
              !.actualRevenue = RatAdd(@, RatInt(sale.total_price)),
              !.actualProfit = RatAdd(@, RatInt(saleProfit(sale))),
              !.paidSalesCount = @ + 1]

\* the body of salesData.forEach, lines 841-883
AddSale(m, sale) ==
    IF sale.payment_method = "credit" /\ Len(sale.credits) > 0
    THEN AddTracked(m, sale)
    ELSE IF sale.payment_method # "credit"
    THEN AddSettled(m, sale)
    ELSE AddFallback(m, sale)

\* lines 829-883: the totals over the first n rows
RECURSIVE Totals(_, _)
Totals(rows, n) ==
    IF n = 0 THEN ZeroMetrics ELSE AddSale(Totals(rows, n - 1), rows[n])

\* ------------------------------------------------------------- growth, rankings, chart
RECURSIVE SumSeq(_)
SumSeq(seq) == IF seq = <<>> THEN 0 ELSE seq[1] + SumSeq(Tail(seq))

RECURSIVE RatSumSeq(_)
RatSumSeq(seq) == IF seq = <<>> THEN RatInt(0) ELSE RatAdd(seq[1], RatSumSeq(Tail(seq)))

\* a / b for b > 0
RatDiv(a, b) == Rat(a.n * b.d, a.d * b.n)

\* the keys of an object a reduce fills, in the order they were first set
RECURSIVE Distinct(_)
Distinct(seq) ==
    IF seq = <<>> THEN <<>>
    ELSE LET init == Distinct(SubSeq(seq, 1, Len(seq) - 1))
             last == seq[Len(seq)]
         IN  IF \E i \in DOMAIN init : init[i] = last THEN init ELSE Append(init, last)

\* Array.prototype.sort with the comparator (a, b) => a.key - b.key: ascending
\* and stable
RECURSIVE SortByKey(_)
SortByKey(seq) ==
    IF seq = <<>> THEN <<>>
    ELSE LET i == CHOOSE x \in DOMAIN seq :
                        /\ \A j \in DOMAIN seq : seq[x].key <= seq[j].key
                        /\ \A j \in 1..(x - 1) : seq[j].key > seq[x].key
             rest == [k \in 1..(Len(seq) - 1) |-> IF k < i THEN seq[k] ELSE seq[k + 1]]
         IN  <<seq[i]>> \o SortByKey(rest)

\* Array.prototype.slice(start, end), a negative start counting from the end
slice(seq, start, end) ==
    LET from == IF start < 0
                THEN (IF Len(seq) + start < 0 THEN 0 ELSE Len(seq) + start)
                ELSE (IF start > Len(seq) THEN Len(seq) ELSE start)
        to == IF end > Len(seq) THEN Len(seq) ELSE end
    IN  SubSeq(seq, from + 1, to)

\* Array.prototype.reverse
reverse(seq) == [i \in DOMAIN seq |-> seq[Len(seq) + 1 - i]]

\* lines 913-923 and 972-982: the part of a sale's amounts that counts as
\* received
receivedShare(sale) ==
    IF sale.payment_method = "credit" /\ Len(sale.credits) > 0
    THEN paymentPercentage(sale.credits[1])
    ELSE IF sale.payment_method # "credit" THEN RatInt(1)
    ELSE RatInt(0)

\* lines 911-924
prevActualRevenue(prevRows) ==
    RatSumSeq([i \in DOMAIN prevRows |->
                  RatMul(RatInt(prevRows[i].total_price), receivedShare(prevRows[i]))])

GrowthAsFraction(actualRevenue, prev) ==
    IF prev.n > 0 THEN RatDiv(RatSub(actualRevenue, prev), prev) ELSE RatInt(0)

\* lines 925-928
salesGrowth(actualRevenue, prev) ==
    IF prev.n > 0
    THEN RatMul(RatDiv(RatSub(actualRevenue, prev), prev), RatInt(100))
    ELSE RatInt(0)

\* lines 932-942: the reduce by product name
productSales(rows) ==
    LET names == Distinct([i \in DOMAIN rows |-> rows[i].name])
    IN  [k \in DOMAIN names |->
            LET of == SelectSeq(rows, LAMBDA r : r.name = names[k])
            IN  [name |-> names[k],
                 totalSales |-> SumSeq([i \in DOMAIN of |-> of[i].total_price]),
                 quantity |-> SumSeq([i \in DOMAIN of |-> of[i].quantity])]]

SortedAscending(rows) ==
    LET ps == productSales(rows)
        sorted == SortByKey([k \in DOMAIN ps |-> [key |-> ps[k].totalSales, val |-> ps[k]]])
    IN  [k \in DOMAIN sorted |-> sorted[k].val]

\* lines 944-946: sort((a, b) => b.totalSales - a.totalSales)
sortedProducts(rows) ==
    LET ps == productSales(rows)
        sorted == SortByKey([k \in DOMAIN ps |-> [key |-> 0 - ps[k].totalSales, val |-> ps[k]]])
    IN  [k \in DOMAIN sorted |-> sorted[k].val]

\* line 948
topProducts(rows) == slice(sortedProducts(rows), 0, RankingSize)

\* line 949
bottomProducts(rows) ==
    reverse(slice(sortedProducts(rows), 0 - RankingSize, Len(sortedProducts(rows))))

\* lines 952-983: the reduce by calendar day
salesByDate(rows) ==
    LET days == Distinct([i \in DOMAIN rows |-> rows[i].sale_date])
    IN  [k \in DOMAIN days |->
            LET of == SelectSeq(rows, LAMBDA r : r.sale_date = days[k])
            IN  [day |-> days[k],
                 sales |-> SumSeq([i \in DOMAIN of |-> of[i].total_price]),
                 profit |-> SumSeq([i \in DOMAIN of |-> saleProfit(of[i])]),
                 actualSales |-> RatSumSeq([i \in DOMAIN of |->
                        RatMul(RatInt(of[i].total_price), receivedShare(of[i]))]),
                 actualProfit |-> RatSumSeq([i \in DOMAIN of |->
                        RatMul(RatInt(saleProfit(of[i])), receivedShare(of[i]))])]]

\* new Date("MMM dd"): a date string without a year is not in the format the
\* language defines.  An engine either reads it as that month and day of one
\* default year, or rejects it: getTime() is then NaN, the comparator
\* returns NaN, and sort takes every pair as equal.
DateParsers == {"defaultYear", "invalid"}
labelTime(parser, label) == IF parser = "defaultYear" THEN label ELSE 0

\* lines 985-992: each day's entry under its "MMM dd" label, sorted by the
\* time its label parses to
salesChart(rows, parser) ==
    LET byDate == salesByDate(rows)
        sorted == SortByKey([k \in DOMAIN byDate |->
                    [key |-> labelTime(parser, MonthDay(byDate[k].day)),
                     val |-> [date |-> MonthDay(byDate[k].day),
                              sales |-> byDate[k].sales,
                              profit |-> byDate[k].profit,
                              actualSales |-> byDate[k].actualSales,
                              actualProfit |-> byDate[k].actualProfit]]])
    IN  [k \in DOMAIN sorted |-> sorted[k].val]

\* lines 888-892: Math.ceil of (endOfDay(to) - startOfDay(from)) in days
periodLength(range) == range.to - range.from + 1

\* lines 829-1009: the metrics the page shows for the rows of the window and
\* the rows of the window before it
DashboardMetrics(rows, prevRows, parser) ==
    LET totals == Totals(rows, Len(rows))
    IN  totals @@ [salesGrowth |-> salesGrowth(totals.actualRevenue, prevActualRevenue(prevRows)),
                   topProducts |-> topProducts(rows),
                   bottomProducts |-> bottomProducts(rows),
                   salesChart |-> salesChart(rows, parser)]

\* fetchDashboardData for the date range `range`: the sales of the window,
\* the sales of the window before it, the metrics
fetchDashboardData(s, range, order, prevOrder, parser) ==
    LET rows == SalesQuery(s, order, range.from, range.to)
        prevRows == SalesQuery(s, prevOrder, range.from - periodLength(range),
                               range.to - periodLength(range))
    IN  [salesData |-> rows, prevSales |-> prevRows,
         metrics |-> DashboardMetrics(rows, prevRows, parser)]

\* what a fetch leaves to the store and the engine: the order of the credits
\* embedded in the rows of the window before, which shows only when that
\* window holds a sale, and the date parser, which shows only when the
\* window spans more than one day
PrevOrders(s, range, order) ==
    IF \E i \in DOMAIN VisibleTo(s, sales) :
            /\ sales[i].sale_date >= range.from - periodLength(range)
            /\ sales[i].sale_date <= range.to - periodLength(range)
    THEN CreditOrders ELSE {order}

Parsers(range) == IF range.from < range.to THEN DateParsers ELSE {"defaultYear"}

\* ------------------------------------------------------------- navigation
\* A session opens a page: the page mounts and runs its fetches; the state
\* of the page the session leaves is gone.  The dashboard mounts with the
\* range from today to today.
Navigate(s, pg) ==
    /\ page[s] # pg
    /\ page' = [page EXCEPT ![s] = pg]
    /\ cacheProducts' = [cacheProducts EXCEPT ![s] =
            IF pg \in {"sales", "products"} THEN FetchProductsOf(VisibleTo(s, products)) ELSE Empty]
    /\ cacheSales' = [cacheSales EXCEPT ![s] =
            IF pg = "sales" THEN FetchSalesOf(VisibleTo(s, sales)) ELSE Empty]
    /\ cacheCredits' = [cacheCredits EXCEPT ![s] =
            IF pg = "credits" THEN FetchCreditsOf(VisibleTo(s, credits)) ELSE Empty]
    /\ dateRange' = [dateRange EXCEPT ![s] =
            IF pg = "dashboard" THEN [from |-> clock, to |-> clock] ELSE NoRange]
    /\ IF pg = "dashboard"
       THEN \E order \in CreditOrders :
            \E prevOrder \in PrevOrders(s, [from |-> clock, to |-> clock], order),
               parser \in Parsers([from |-> clock, to |-> clock]) :
              LET r == fetchDashboardData(s, [from |-> clock, to |-> clock],
                                          order, prevOrder, parser)
              IN  /\ salesData' = [salesData EXCEPT ![s] = r.salesData]
                  /\ prevSalesWithCredits' = [prevSalesWithCredits EXCEPT ![s] = r.prevSales]
                  /\ metrics' = [metrics EXCEPT ![s] = r.metrics]
       ELSE /\ salesData' = [salesData EXCEPT ![s] = Empty]
            /\ prevSalesWithCredits' = [prevSalesWithCredits EXCEPT ![s] = Empty]
            /\ metrics' = [metrics EXCEPT ![s] = NoMetrics]
    /\ UNCHANGED <<db, toast, ledgers, clock, userVars>>

\* A preset or the two calendars of the date popover set dateRange (lines
\* 1058-1164; no day after today can be picked), and the effect of line 1017
\* runs fetchDashboardData
SetDateRange(s, from, to) ==
    /\ page[s] = "dashboard"
    /\ from <= clock /\ to <= clock
    /\ dateRange[s] # [from |-> from, to |-> to]
    /\ dateRange' = [dateRange EXCEPT ![s] = [from |-> from, to |-> to]]
    /\ \E order \in CreditOrders :
        \E prevOrder \in PrevOrders(s, [from |-> from, to |-> to], order),
           parser \in Parsers([from |-> from, to |-> to]) :
          LET r == fetchDashboardData(s, [from |-> from, to |-> to],
                                      order, prevOrder, parser)
          IN  /\ salesData' = [salesData EXCEPT ![s] = r.salesData]
              /\ prevSalesWithCredits' = [prevSalesWithCredits EXCEPT ![s] = r.prevSales]
              /\ metrics' = [metrics EXCEPT ![s] = r.metrics]
    /\ UNCHANGED <<db, page, cacheProducts, cacheSales, cacheCredits, toast, ledgers, clock, userVars>>

\* midnight: the next calendar day begins
Tick ==
    /\ clock < MaxDay
    /\ clock' = clock + 1
    /\ UNCHANGED <<db, caches, toast, ledgers, userVars>>

\* ------------------------------------------------------------- behaviours
\* an empty store; every session on the landing page
Init ==
    /\ products = Empty
    /\ sales = Empty
    /\ credits = Empty
    /\ nextSaleId = 1
    /\ nextCreditId = 1
    /\ page = [s \in Sessions |-> "index"]
    /\ cacheProducts = [s \in Sessions |-> Empty]
    /\ cacheSales = [s \in Sessions |-> Empty]
    /\ cacheCredits = [s \in Sessions |-> Empty]
    /\ salesData = [s \in Sessions |-> Empty]
    /\ prevSalesWithCredits = [s \in Sessions |-> Empty]
    /\ metrics = [s \in Sessions |-> NoMetrics]
    /\ toast = "none"
    /\ paidLedger = [c \in 1..MaxCredits |-> 0]
    /\ clock = 0
    /\ dateRange = [s \in Sessions |-> NoRange]
    /\ authUsers = {Owner}
    /\ profiles = (Owner :> [role |-> "admin", business_id |-> "b1"])
    /\ nextUserId = 1
    /\ authSession = Owner
    /\ createUserCall = NoCall

\* The stock ledger: s1 (an admin) works on the Sales page while s2 works on
\* the Products page, each on the rows its page fetched.
NextStock ==
    \/ Navigate("s1", "sales")
    \/ Navigate("s2", "products")
    \/ \E stock \in 0..MaxStock : ProductCreate("s2", stock, 1)
    \/ \E stock \in 0..MaxStock : ProductEdit("s2", "p1", stock, 1)
    \/ \E p \in ProductIds, add \in 1..MaxAdd : StockSubmit("s2", p, add)
    \/ \E e \in 0..StockSales, p \in ProductIds, q \in 1..MaxQty, m \in {"cash", "credit"} :
            /\ e = 0 => nextSaleId <= StockSales
            /\ SaleSubmit("s1", e, p, q, 1, m, TRUE)
    \/ \E id \in 1..StockSales : SaleDelete("s1", id)

SpecStock == Init /\ [][NextStock]_vars

\* ------------------------------------------------------------- stock claims
\* C2: in every committed state every product's stock_quantity is at least 0,
\* whatever sale inserts, updates, deletes and stock adjustments led to it.
C2_StockNeverNegative ==
    \A p \in DOMAIN products : products[p].stock_quantity >= 0

\* C2 witness: the trigger has rejected a sale on a product that another
\* session had meanwhile sold out or adjusted down to 0
C2_Witness ==
    /\ toast = "InsufficientStock"
    /\ \E p \in DOMAIN products :
          /\ products[p].stock_quantity = 0
          /\ p \in DOMAIN cacheProducts["s1"] /\ cacheProducts["s1"][p] > 0

\* the stock of p after the requested insert (e = 0) or update of sale e
\* would be below 0
WouldGoNegative(e, p, q) ==
    /\ p \in DOMAIN products
    /\ e # 0 => e \in DOMAIN sales
    /\ products[p].stock_quantity
          + (IF e # 0 /\ sales[e].product_id = p THEN sales[e].quantity ELSE 0)
          - q < 0

\* C3: a valid sale insert or update that would make the target product's
\* stock negative is answered with an insufficient-stock error and changes
\* no product (the old product of a moved sale included), no sale row and
\* no credit account.
C3_RejectedSaleChangesNothing ==
    [][\A s \in Sessions, e \in 0..MaxSales, p \in ProductIds, q \in 1..MaxQty,
          m \in {"cash", "credit"} :
            (SaleSubmit(s, e, p, q, 1, m, TRUE) /\ WouldGoNegative(e, p, q))
                => /\ InsufficientStock(toast')
                   /\ UNCHANGED <<products, sales, credits>>]_vars

\* C3 witness: the trigger rejected the update of an existing sale whose
\* page rows were stale, and a product holds stock
C3_Witness ==
    /\ toast = "InsufficientStock"
    /\ sales # Empty
    /\ \E p \in DOMAIN products : products[p].stock_quantity > 0

\* C10: every stock-affecting operation that succeeds moves the stored
\* stock_quantity by exactly its own quantity, so that no concurrent change
\* is lost: add-stock adds additional_stock, a sale insert subtracts the
\* quantity sold, a delete restores it.
C10_NoStockUpdateLost ==
    [][/\ \A s \in Sessions, p \in ProductIds, add \in 1..MaxAdd :
             StockSubmit(s, p, add)
                => products'[p].stock_quantity = products[p].stock_quantity + add
       /\ \A s \in Sessions, p \in ProductIds, q \in 1..MaxQty, m \in {"cash", "credit"} :
             (SaleSubmit(s, 0, p, q, 1, m, TRUE) /\ toast' = "SaleRecorded")
                => products'[p].stock_quantity = products[p].stock_quantity - q
       /\ \A s \in Sessions, id \in DOMAIN sales :
             (SaleDelete(s, id) /\ toast' = "SaleDeleted")
                => products'[sales[id].product_id].stock_quantity
                     = products[sales[id].product_id].stock_quantity + sales[id].quantity
      ]_vars

\* ------------------------------------------------------------- credit specs
\* Payment recording: s1 sets up a product and credit sales, then both
\* sessions record payments on the Credits page.
NextPay ==
    \/ \E pg \in {"products", "sales", "credits"} : Navigate("s1", pg)
    \/ Navigate("s2", "credits")
    \/ products = Empty /\ ProductCreate("s1", MaxStock, 1)
    \/ \E p \in ProductIds, pr \in 1..MaxPrice :
            SaleSubmit("s1", 0, p, 1, pr, "credit", TRUE)
    \/ \E s \in Sessions, c \in 1..MaxCredits, amount \in 0..MaxPay : Payment(s, c, amount)

SpecPay == Init /\ [][NextPay]_vars

\* Credit accounts under payments, account edits and sale edits.
NextCredit ==
    \/ \E pg \in {"products", "sales"} : Navigate("s1", pg)
    \/ Navigate("s2", "credits")
    \/ products = Empty /\ ProductCreate("s1", MaxStock, 1)
    \/ \E e \in 0..MaxSales, q \in 1..MaxQty, pr \in 1..MaxPrice :
            SaleSubmit("s1", e, "p1", q, pr, "credit", TRUE)
    \/ \E c \in 1..MaxCredits, amount \in 0..MaxPay : Payment("s2", c, amount)
    \/ \E c \in 1..MaxCredits, owed \in 0..MaxOwed, st \in Statuses :
            EditAccount("s2", c, owed, st)

SpecCredit == Init /\ [][NextCredit]_vars

\* ------------------------------------------------------------- credit claims
\* C5: every credit account has amount_paid <= amount_owed in every state
\* that payments, account edits and sale edits can reach.
C5_PaidNeverExceedsOwed ==
    \A c \in DOMAIN credits : credits[c].amount_paid <= credits[c].amount_owed

StatusRank(st) == IF st = "unpaid" THEN 0 ELSE IF st = "partially_paid" THEN 1 ELSE 2

\* C6: under payment recording from any sessions the stored amount_paid of
\* an account never decreases and its status never moves backward on
\* unpaid -> partially_paid -> paid.
C6_PaymentsOnlyMoveForward ==
    [][\A c \in DOMAIN credits :
          c \in DOMAIN credits'
            => /\ credits'[c].amount_paid >= credits[c].amount_paid
               /\ StatusRank(credits'[c].status) >= StatusRank(credits[c].status)]_vars

\* C7: a payment whose amount is not positive or is above the account's
\* outstanding balance is answered with Invalid Amount and leaves the
\* account as it was.
C7_InvalidPaymentRejected ==
    [][\A s \in Sessions, c \in DOMAIN credits, amount \in 0..MaxPay :
          (/\ Payment(s, c, amount)
           /\ amount <= 0 \/ amount > credits[c].amount_owed - credits[c].amount_paid)
            => /\ toast' = "InvalidAmount"
               /\ credits'[c] = credits[c]]_vars

\* C8: a payment acknowledged as recorded raises the stored amount_paid by
\* exactly its amount, and the status is the one derived from the amounts.
C8_PaymentAddsItsAmount ==
    [][\A s \in Sessions, c \in DOMAIN credits, amount \in 0..MaxPay :
          (Payment(s, c, amount) /\ toast' = "PaymentRecorded")
            => /\ credits'[c].amount_paid = credits[c].amount_paid + amount
               /\ credits'[c].status =
                    (IF credits'[c].amount_paid >= credits'[c].amount_owed THEN "paid"
                     ELSE IF credits'[c].amount_paid > 0 THEN "partially_paid"
                     ELSE "unpaid")]_vars

\* C9: the stored amount_paid of an account is the sum of all payments
\* acknowledged as recorded against it: no accepted payment is lost or
\* overwritten, whatever sessions recorded them.
C9_NoPaymentLost ==
    \A c \in DOMAIN credits : credits[c].amount_paid = paidLedger[c]

\* ------------------------------------------------------------- dashboard spec
\* One administrator keeps the books and reads the dashboard: products with
\* their buying prices, sales by every payment method of the form, payments,
\* account edits and account deletions, and the dashboard fetch.
NextRecon ==
    \/ \E pg \in {"products", "sales", "credits", "dashboard"} : Navigate("s1", pg)
    \/ \E bp \in 1..MaxPrice : products = Empty /\ ProductCreate("s1", MaxStock, bp)
    \/ \E bp \in 1..MaxPrice : ProductEdit("s1", "p1", MaxStock, bp)
    \/ \E pr \in 1..MaxPrice, m \in FormMethods, cf \in BOOLEAN :
            SaleSubmit("s1", 0, "p1", 1, pr, m, cf)
    \/ \E c \in 1..MaxCredits, amount \in 0..MaxPay : Payment("s1", c, amount)
    \/ \E c \in 1..MaxCredits, owed \in 0..MaxOwed : EditAccount("s1", c, owed, "unpaid")
    \/ \E c \in 1..MaxCredits : DeleteAccount("s1", c)

SpecRecon == Init /\ [][NextRecon]_vars

\* ------------------------------------------------------------- dashboard claims
\* what the n-th row of the fetched sales added to one total of the dashboard
Added(rows, n, field) == RatSub(Totals(rows, n)[field], Totals(rows, n - 1)[field])

AddedCount(rows, n, field) == Totals(rows, n)[field] - Totals(rows, n - 1)[field]

\* C1: on every fetched dashboard each sale is reconciled by the three-way
\* branch: a sale not on credit is all actual and counted as paid; a credit
\* sale with an account is split by ratio = amount_paid / amount_owed (0 when
\* amount_owed is not positive) and counted as paid iff ratio >= 1, else as
\* credit; a credit sale without an account is all pending and counted as
\* credit.
C1_ThreeWayBranch ==
    \A s \in Sessions :
        metrics[s].fetched =>
            /\ [f \in DOMAIN ZeroMetrics |-> metrics[s][f]]
                    = Totals(salesData[s], Len(salesData[s]))
            /\ \A n \in 1..Len(salesData[s]) :
                LET rows == salesData[s]
                    sale == rows[n]
                    total == RatInt(sale.total_price)
                    profit == RatInt((sale.selling_price - sale.buying_price) * sale.quantity)
                    account == sale.credits[1]
                    ratio == IF account.amount_owed > 0
                             THEN Rat(account.amount_paid, account.amount_owed)
                             ELSE RatInt(0)
                    rest == RatSub(RatInt(1), ratio)
                IN  /\ sale.payment_method # "credit"
                        => /\ Added(rows, n, "actualRevenue") = total
                           /\ Added(rows, n, "pendingRevenue") = RatInt(0)
                           /\ Added(rows, n, "actualProfit") = profit
                           /\ Added(rows, n, "pendingProfit") = RatInt(0)
                           /\ AddedCount(rows, n, "paidSalesCount") = 1
                           /\ AddedCount(rows, n, "creditSalesCount") = 0
                    /\ (sale.payment_method = "credit" /\ Len(sale.credits) > 0)
                        => /\ Added(rows, n, "actualRevenue") = RatMul(total, ratio)
                           /\ Added(rows, n, "pendingRevenue") = RatMul(total, rest)
                           /\ Added(rows, n, "actualProfit") = RatMul(profit, ratio)
                           /\ Added(rows, n, "pendingProfit") = RatMul(profit, rest)
                           /\ AddedCount(rows, n, "paidSalesCount")
                                = (IF RatGeq(ratio, RatInt(1)) THEN 1 ELSE 0)
                           /\ AddedCount(rows, n, "creditSalesCount")
                                = (IF RatGeq(ratio, RatInt(1)) THEN 0 ELSE 1)
                    /\ (sale.payment_method = "credit" /\ Len(sale.credits) = 0)
                        => /\ Added(rows, n, "actualRevenue") = RatInt(0)
                           /\ Added(rows, n, "pendingRevenue") = total
                           /\ Added(rows, n, "actualProfit") = RatInt(0)
                           /\ Added(rows, n, "pendingProfit") = profit
                           /\ AddedCount(rows, n, "paidSalesCount") = 0
                           /\ AddedCount(rows, n, "creditSalesCount") = 1

\* C1 witness: a fetched dashboard that shows a credit sale whose account is
\* paid in part next to a credit sale whose account is gone
C1_Witness ==
    \E s \in Sessions :
        /\ metrics[s].fetched
        /\ \E i, j \in DOMAIN salesData[s] :
            /\ salesData[s][i].payment_method = "credit"
            /\ Len(salesData[s][i].credits) > 0
            /\ salesData[s][i].credits[1].amount_paid > 0
            /\ salesData[s][i].credits[1].amount_paid < salesData[s][i].credits[1].amount_owed
            /\ salesData[s][j].payment_method = "credit"
            /\ Len(salesData[s][j].credits) = 0

\* C4: on every fetched dashboard each sale's actual and pending parts add
\* up to its total_price and to its profit, whatever amount_paid and
\* amount_owed are, and so actualRevenue + pendingRevenue = totalSalesAmount
\* and actualProfit + pendingProfit = totalProfit.
C4_ReconciliationComplete ==
    \A s \in Sessions :
        metrics[s].fetched =>
            /\ \A n \in 1..Len(salesData[s]) :
                LET rows == salesData[s]
                    sale == rows[n]
                IN  /\ RatAdd(Added(rows, n, "actualRevenue"), Added(rows, n, "pendingRevenue"))
                            = RatInt(sale.total_price)
                    /\ RatAdd(Added(rows, n, "actualProfit"), Added(rows, n, "pendingProfit"))
                            = RatInt((sale.selling_price - sale.buying_price) * sale.quantity)
            /\ RatAdd(metrics[s].actualRevenue, metrics[s].pendingRevenue)
                    = RatInt(metrics[s].totalSalesAmount)
            /\ RatAdd(metrics[s].actualProfit, metrics[s].pendingProfit)
                    = RatInt(metrics[s].totalProfit)

\* C4 witness: a fetched dashboard that shows a sale sold at a loss and not
\* on credit next to a credit sale whose account holds more paid than owed
C4_Witness ==
    \E s \in Sessions :
        /\ metrics[s].fetched
        /\ \E i, j \in DOMAIN salesData[s] :
            /\ salesData[s][i].payment_method # "credit"
            /\ salesData[s][i].selling_price < salesData[s][i].buying_price
            /\ salesData[s][j].payment_method = "credit"
            /\ Len(salesData[s][j].credits) > 0
            /\ salesData[s][j].credits[1].amount_paid > salesData[s][j].credits[1].amount_owed

\* ------------------------------------------------------------- storage API
\* The statements of the pages reach the store as requests signed with the
\* session's own token; the row level policies and the triggers are all that
\* stands between such a request and the tables.

\* INSERT INTO sales (business_id, product_id, quantity, ...): the INSERT
\* policy checks the new row's business_id, the foreign key checks that the
\* product exists, and the AFTER trigger runs as its definer
RestInsertSale(s, b, p, q) ==
    LET saleData == [business_id |-> b, product_id |-> p, quantity |-> q,
                     selling_price |-> 1, total_price |-> 0, payment_method |-> "cash",
                     sale_date |-> clock]
        st == InsertSale(products, sales, nextSaleId, saleData)
    IN  /\ p \in DOMAIN products
        /\ nextSaleId <= MaxSales
        /\ IF b # Business(s)
           THEN /\ toast' = "PolicyViolation"
                /\ UNCHANGED <<db, caches, ledgers, clock, userVars>>
           ELSE /\ toast' = (IF st.error = "none" THEN "Stored" ELSE st.error)
                /\ products' = st.products
                /\ sales' = st.sales
                /\ nextSaleId' = IF st.error = "none" THEN nextSaleId + 1 ELSE nextSaleId
                /\ UNCHANGED <<credits, nextCreditId, caches, ledgers, clock, userVars>>

\* UPDATE sales SET product_id = p, quantity = q WHERE id = id: the UPDATE
\* policy lets the statement match rows of the caller's business only
RestUpdateSale(s, id, p, q) ==
    LET mine == VisibleTo(s, sales)
        st == UpdateSale(products, mine, id,
                [sales[id] EXCEPT !.product_id = p, !.quantity = q])
    IN  /\ id \in DOMAIN sales
        /\ p \in DOMAIN products
        /\ \A x \in DOMAIN products : st.products[x].stock_quantity <= MaxStock + MaxQty
        /\ toast' = (IF st.error = "none" THEN "Stored" ELSE st.error)
        /\ products' = st.products
        /\ sales' = [i \in DOMAIN sales |-> IF i \in DOMAIN st.sales THEN st.sales[i] ELSE sales[i]]
        /\ UNCHANGED <<credits, nextSaleId, nextCreditId, caches, ledgers, clock, userVars>>

\* UPDATE products SET stock_quantity = stock WHERE id = p, under the UPDATE
\* policy of products
RestUpdateProduct(s, p, stock) ==
    /\ p \in DOMAIN products
    /\ products' = IF p \in DOMAIN VisibleTo(s, products)
                   THEN [products EXCEPT ![p].stock_quantity = stock]
                   ELSE products
    /\ toast' = "Stored"
    /\ UNCHANGED <<sales, credits, nextSaleId, nextCreditId, caches, ledgers, clock, userVars>>

\* Two businesses on one store: s1 keeps the products of b1, s3 works for b2
\* through the pages and with requests of its own.
NextTenant ==
    \/ Navigate("s1", "products")
    \/ \E pg \in {"products", "dashboard"} : Navigate("s3", pg)
    \/ \E s \in {"s1", "s3"} : ProductCreate(s, MaxStock, 1)
    \/ \E b \in Businesses, p \in ProductIds, q \in 1..MaxQty : RestInsertSale("s3", b, p, q)
    \/ \E id \in 1..MaxSales, p \in ProductIds, q \in 1..MaxQty : RestUpdateSale("s3", id, p, q)
    \/ \E p \in ProductIds, stock \in 0..MaxStock : RestUpdateProduct("s3", p, stock)

SpecTenant == Init /\ [][NextTenant]_vars

\* the products a session's business does not own are left as they were
OthersUntouched(s) ==
    \A x \in DOMAIN products :
        products[x].business_id # Business(s) => products'[x] = products[x]

\* C11: no session reads or changes a row of another business: the rows a
\* page or the dashboard holds are rows of the session's business, and no
\* sale insert, sale update or product update a session sends changes a
\* product of another business.
C11_TenantIsolation ==
    [][/\ \A s \in Sessions :
            /\ \A p \in DOMAIN cacheProducts'[s] : products'[p].business_id = Business(s)
            /\ \A i \in DOMAIN cacheSales'[s] :
                    i \in DOMAIN sales' => sales'[i].business_id = Business(s)
            /\ \A n \in DOMAIN salesData'[s] :
                    salesData'[s][n].id \in DOMAIN sales'
                        => sales'[salesData'[s][n].id].business_id = Business(s)
       /\ \A s \in Sessions, b \in Businesses, p \in ProductIds, q \in 1..MaxQty :
            RestInsertSale(s, b, p, q) => OthersUntouched(s)
       /\ \A s \in Sessions, id \in 1..MaxSales, p \in ProductIds, q \in 1..MaxQty :
            RestUpdateSale(s, id, p, q) => OthersUntouched(s)
       /\ \A s \in Sessions, p \in ProductIds, stock \in 0..MaxStock :
            RestUpdateProduct(s, p, stock) => OthersUntouched(s)]_vars

\* ------------------------------------------------------------- sale edits
\* C12: an accepted update of a stored sale from (oldProduct, oldQty) to
\* (newProduct, newQty) adds oldQty to oldProduct's stock, subtracts newQty
\* from newProduct's stock (net oldQty - newQty on one product) and leaves
\* the stock of every other product alone.
C12_UpdateMovesStock ==
    [][\A s \in Sessions, e \in DOMAIN sales, p \in ProductIds, q \in 1..MaxQty,
          m \in {"cash", "credit"} :
            (SaleSubmit(s, e, p, q, 1, m, TRUE) /\ toast' = "SaleUpdated")
                => \A x \in DOMAIN products :
                      products'[x].stock_quantity
                        = products[x].stock_quantity
                            + (IF x = sales[e].product_id THEN sales[e].quantity ELSE 0)
                            - (IF x = p THEN q ELSE 0)]_vars

\* C12 witness: an update was accepted and left its sale on the second
\* product with the first product's stock in place
C12_Witness ==
    /\ toast = "SaleUpdated"
    /\ \E i \in DOMAIN sales : sales[i].product_id = "p2"
    /\ "p1" \in DOMAIN products
    /\ products["p1"].stock_quantity > 0

\* C13: the edit of a stored sale is accepted if and only if the new
\* quantity is at most the stock in the store when the edit is applied: the
\* product's stock_quantity plus the sale's old quantity when the product
\* stays, the new product's stock_quantity when the sale moves.
C13_EditAcceptedIffFits ==
    [][\A s \in Sessions, e \in DOMAIN sales, p \in ProductIds, q \in 1..MaxQty :
            SaleSubmit(s, e, p, q, 1, "cash", TRUE)
                => (toast' = "SaleUpdated"
                      <=> q <= products[p].stock_quantity
                                + (IF sales[e].product_id = p THEN sales[e].quantity ELSE 0))]_vars

\* C14: from every state, a sale that is inserted and then deleted, with
\* nothing in between, leaves the stock of every product as it was before
\* the insert.
C14_InsertThenDeleteRestores ==
    \A p \in DOMAIN products, q \in 1..MaxQty, b \in Businesses :
        LET new == [business_id |-> b, product_id |-> p, quantity |-> q,
                    selling_price |-> 1, total_price |-> 0, payment_method |-> "cash",
                     sale_date |-> clock]
            ins == InsertSale(products, sales, nextSaleId, new)
            del == DeleteSale(ins.products, ins.sales, credits, nextSaleId, "admin")
        IN  ins.error = "none"
                => /\ ins.products[p].stock_quantity = products[p].stock_quantity - q
                   /\ del.products = products

\* C14 witness: the one sale of a behaviour was deleted, and a product can
\* take another sale
C14_Witness ==
    /\ toast = "SaleDeleted"
    /\ sales = Empty
    /\ nextSaleId > 1
    /\ \E p \in DOMAIN products : products[p].stock_quantity >= 1

\* ------------------------------------------------------------- pricing
\* C15: every stored sale has total_price = quantity * selling_price, after
\* any inserts and updates, whatever total_price the statement carried.
C15_TotalPriceIsProduct ==
    \A i \in DOMAIN sales : sales[i].total_price = sales[i].quantity * sales[i].selling_price

\* C15 witness: an update left a sale of the largest quantity at the largest price
C15_Witness ==
    /\ toast = "SaleUpdated"
    /\ \E i \in DOMAIN sales :
          /\ sales[i].quantity = MaxQty
          /\ sales[i].selling_price = MaxPrice
          /\ sales[i].total_price = MaxQty * MaxPrice

\* ------------------------------------------------------------- accounts
\* C16: every sale has at most one credit account in every state, also
\* after a credit sale was edited.
C16_OneAccountPerSale ==
    \A i \in DOMAIN sales : Cardinality({c \in DOMAIN credits : credits[c].sale_id = i}) <= 1

\* C17 as stated: after an account edit the stored status is the status the
\* form submitted, whatever the amounts are.
C17_EditStoresSubmittedStatus ==
    [][\A s \in Sessions, c \in DOMAIN credits, owed \in 0..MaxOwed, st \in Statuses :
            EditAccount(s, c, owed, st) => credits'[c].status = st]_vars

\* C17 amended: after an account edit the stored status is the one derived
\* from the stored amounts (paid when amount_paid >= amount_owed,
\* partially_paid when 0 < amount_paid < amount_owed, else unpaid), whatever
\* status the form submitted.
C17_EditStoresDerivedStatus ==
    [][\A s \in Sessions, c \in DOMAIN credits, owed \in 0..MaxOwed, st \in Statuses :
            EditAccount(s, c, owed, st)
                => /\ credits'[c].amount_owed = owed
                   /\ credits'[c].status =
                        (IF credits'[c].amount_paid >= owed THEN "paid"
                         ELSE IF credits'[c].amount_paid > 0 THEN "partially_paid"
                         ELSE "unpaid")]_vars

\* C17 witness: an account edit left an account that is paid in part
C17_Witness ==
    /\ toast = "CreditUpdated"
    /\ \E c \in DOMAIN credits :
          /\ credits[c].amount_paid > 0
          /\ credits[c].amount_paid < credits[c].amount_owed
          /\ credits[c].status = "partially_paid"

\* ------------------------------------------------------------- dashboard ratio
\* C18: on every fetched dashboard the payment ratio of a credit sale with an
\* account lies in [0, 1], and the sale's actual and pending revenue each
\* lie between 0 and its total_price.
C18_RatioWithinUnit ==
    \A s \in Sessions :
        metrics[s].fetched =>
            \A n \in 1..Len(salesData[s]) :
                LET rows == salesData[s]
                    sale == rows[n]
                    total == RatInt(sale.total_price)
                IN  (sale.payment_method = "credit" /\ Len(sale.credits) > 0)
                        => /\ RatGeq(paymentPercentage(sale.credits[1]), RatInt(0))
                           /\ RatGeq(RatInt(1), paymentPercentage(sale.credits[1]))
                           /\ RatGeq(Added(rows, n, "actualRevenue"), RatInt(0))
                           /\ RatGeq(total, Added(rows, n, "actualRevenue"))
                           /\ RatGeq(Added(rows, n, "pendingRevenue"), RatInt(0))
                           /\ RatGeq(total, Added(rows, n, "pendingRevenue"))

\* ------------------------------------------------------------- sale form spec
\* One administrator records and edits sales of one product, on cash and on
\* credit, with and without the customer fields, while the request that
\* inserts the credit row may fail.
NextSale ==
    \/ \E pg \in {"products", "sales"} : Navigate("s1", pg)
    \/ products = Empty /\ ProductCreate("s1", MaxStock, 1)
    \/ \E e \in 0..MaxSales, q \in 1..MaxQty, pr \in 0..MaxPrice, m \in {"cash", "credit"},
          cf \in BOOLEAN, creditError \in BOOLEAN :
            SubmitSaleForm("s1", e, "p1", q, pr, m, cf, creditError)
    \/ \E id \in 1..MaxSales : SaleDelete("s1", id)

SpecSale == Init /\ [][NextSale]_vars

\* C19: recording a credit sale is all-or-nothing: after the step either
\* the sale row, its credit account and the stock decrement are all there,
\* or none of them is.
C19_CreditSaleAllOrNothing ==
    [][\A s \in Sessions, p \in ProductIds, q \in 1..MaxQty, pr \in 0..MaxPrice,
          creditError \in BOOLEAN :
            SubmitSaleForm(s, 0, p, q, pr, "credit", TRUE, creditError)
                => \/ UNCHANGED <<products, sales, credits>>
                   \/ /\ nextSaleId \in DOMAIN sales'
                      /\ \E c \in DOMAIN credits' : credits'[c].sale_id = nextSaleId
                      /\ products'[p].stock_quantity = products[p].stock_quantity - q]_vars

\* C20: a sale form submitted with payment_method = credit and without the
\* customer name or the due date, for a new sale or for an edit, ends in a
\* validation error and leaves products, sales and credits as they were.
C20_CreditNeedsCustomerFields ==
    [][\A s \in Sessions, e \in 0..MaxSales, p \in ProductIds, q \in 1..MaxQty,
          pr \in 0..MaxPrice, creditError \in BOOLEAN :
            SubmitSaleForm(s, e, p, q, pr, "credit", FALSE, creditError)
                => /\ toast' = "ValidationError"
                   /\ UNCHANGED <<products, sales, credits>>]_vars

\* C20 witness: the form of an existing sale was refused by the validation
\* while the product still had stock
C20_Witness ==
    /\ toast = "ValidationError"
    /\ sales # Empty
    /\ \E p \in DOMAIN products : products[p].stock_quantity > 0

\* ------------------------------------------------------------- payment methods
\* C21: a new sale by any payment method of the form (cash, mpesa, bank,
\* credit) that passes the form validation and fits the stock is stored
\* with that payment method.
C21_EveryFormMethodStored ==
    [][\A s \in Sessions, p \in ProductIds, q \in 1..MaxQty, pr \in 1..MaxPrice,
          m \in FormMethods :
            (/\ SaleSubmit(s, 0, p, q, pr, m, TRUE)
             /\ q <= cacheProducts[s][p]
             /\ q <= products[p].stock_quantity)
                => /\ nextSaleId \in DOMAIN sales'
                   /\ sales'[nextSaleId].payment_method = m]_vars

\* ------------------------------------------------------------- deletions
\* An admin (s1) and a plain user (s2) of one business: s1 creates the
\* product before anything else happens and records credit sales; both
\* try the delete buttons of the three pages.
NextDelete ==
    \/ \E s \in {"s1", "s2"}, pg \in {"products", "sales", "credits"} : Navigate(s, pg)
    \/ products = Empty /\ toast = "none" /\ ProductCreate("s1", MaxStock, 1)
    \/ SaleSubmit("s1", 0, "p1", 1, 1, "credit", TRUE)
    \/ \E s \in {"s1", "s2"}, id \in 1..MaxSales : SaleDelete(s, id)
    \/ \E s \in {"s1", "s2"}, c \in 1..MaxCredits : DeleteAccount(s, c)
    \/ \E s \in {"s1", "s2"}, p \in ProductIds : ProductDelete(s, p)

SpecDelete == Init /\ [][NextDelete]_vars

\* C22: a delete of a sale, a product or a credit account by a session
\* whose role is not admin removes no row and is answered with Access
\* Denied, never with a message of success.
C22_DeleteNeedsAdmin ==
    [][\A s \in Sessions :
          Role(s) # "admin"
            => /\ \A id \in 1..MaxSales :
                    SaleDelete(s, id)
                        => toast' = "AccessDenied" /\ UNCHANGED <<products, sales, credits>>
               /\ \A p \in ProductIds :
                    ProductDelete(s, p)
                        => toast' = "AccessDenied" /\ UNCHANGED <<products, sales, credits>>
               /\ \A c \in 1..MaxCredits :
                    DeleteAccount(s, c)
                        => toast' = "AccessDenied" /\ UNCHANGED <<products, sales, credits>>]_vars

\* ------------------------------------------------------------- the dashboard over days
\* One admin records and edits cash sales of one product while the days
\* pass, and reads the dashboard for the date ranges the popover offers
NextChart ==
    \/ \E pg \in {"products", "sales", "dashboard"} : Navigate("s1", pg)
    \/ products = Empty /\ ProductCreate("s1", MaxStock, 1)
    \/ \E e \in 0..MaxSales, q \in 1..MaxQty : SaleSubmit("s1", e, "p1", q, 1, "cash", TRUE)
    \/ \E from \in 0..MaxDay, to \in 0..MaxDay :
            from <= to /\ SetDateRange("s1", from, to)
    \/ Tick

SpecChart == Init /\ [][NextChart]_vars

\* the rows of one calendar day
RowsOfDay(rows, d) == SelectSeq(rows, LAMBDA r : r.sale_date = d)

\* C23: on every fetched dashboard the time series has one entry per
\* calendar day that has sales in the window, the entry sums that day's
\* total_price, profit, actual revenue and actual profit, and the entries
\* stand in chronological order, also when the window spans a year boundary.
C23_ChartChronological ==
    \A s \in Sessions :
        metrics[s].fetched =>
            LET rows == salesData[s]
                days == Ascending({rows[i].sale_date : i \in DOMAIN rows})
                chart == metrics[s].salesChart
            IN  /\ Len(chart) = Len(days)
                /\ \A k \in DOMAIN days :
                    LET of == RowsOfDay(rows, days[k])
                    IN  /\ chart[k].date = MonthDay(days[k])
                        /\ chart[k].sales = SumSeq([i \in DOMAIN of |-> of[i].total_price])
                        /\ chart[k].profit = SumSeq([i \in DOMAIN of |-> saleProfit(of[i])])
                        /\ chart[k].actualSales = RatSumSeq([i \in DOMAIN of |->
                                RatMul(RatInt(of[i].total_price), receivedShare(of[i]))])
                        /\ chart[k].actualProfit = RatSumSeq([i \in DOMAIN of |->
                                RatMul(RatInt(saleProfit(of[i])), receivedShare(of[i]))])

\* ------------------------------------------------------------- the rankings as a function
\* The rows a dashboard query may return for a business with up to MaxNames
\* products: cash sales of one day, one sale per product and, with dup, a
\* second sale of the first product
RankRows(n, totals, dup) ==
    [i \in 1..(n + (IF dup THEN 1 ELSE 0)) |->
        LET k == IF i > n THEN 1 ELSE i
        IN  [id |-> i, quantity |-> 1,
             selling_price |-> IF i > n THEN 1 ELSE totals[k],
             total_price |-> IF i > n THEN 1 ELSE totals[k],
             sale_date |-> 0, payment_method |-> "cash",
             product |-> "p" \o ToString(k), name |-> "p" \o ToString(k),
             buying_price |-> 0, credits |-> <<>>]]

RankInputs(least) ==
    UNION {{RankRows(n, totals, dup) :
                totals \in [1..n -> 1..MaxPrice],
                dup \in (IF n = 0 THEN {FALSE} ELSE BOOLEAN)} : n \in least..MaxNames}

\* the dashboard of s1 has read its rows
InitRank ==
    /\ products = Empty
    /\ sales = Empty
    /\ credits = Empty
    /\ nextSaleId = 1
    /\ nextCreditId = 1
    /\ page = [s \in Sessions |-> IF s = "s1" THEN "dashboard" ELSE "index"]
    /\ cacheProducts = [s \in Sessions |-> Empty]
    /\ cacheSales = [s \in Sessions |-> Empty]
    /\ cacheCredits = [s \in Sessions |-> Empty]
    /\ salesData \in {[s \in Sessions |-> IF s = "s1" THEN rows ELSE Empty] :
                            rows \in RankInputs(0)}
    /\ prevSalesWithCredits = [s \in Sessions |-> Empty]
    /\ metrics = [s \in Sessions |-> NoMetrics]
    /\ toast = "none"
    /\ paidLedger = [c \in 1..MaxCredits |-> 0]
    /\ clock = 0
    /\ dateRange = [s \in Sessions |-> NoRange]
    /\ authUsers = {Owner}
    /\ profiles = (Owner :> [role |-> "admin", business_id |-> "b1"])
    /\ nextUserId = 1
    /\ authSession = Owner
    /\ createUserCall = NoCall

\* lines 829-1009 applied to the rows read
ComputeMetrics(s) ==
    /\ page[s] = "dashboard"
    /\ ~metrics[s].fetched
    /\ \E parser \in Parsers(dateRange[s]) :
            metrics' = [metrics EXCEPT ![s] =
                DashboardMetrics(salesData[s], prevSalesWithCredits[s], parser)]
    /\ UNCHANGED <<db, page, cacheProducts, cacheSales, cacheCredits, salesData,
                   prevSalesWithCredits, dateRange, toast, ledgers, clock, userVars>>

NextRank == ComputeMetrics("s1")

SpecRank == InitRank /\ [][NextRank]_vars

ProductNames(rows) == {rows[i].name : i \in DOMAIN rows}

TotalOf(rows, nm) ==
    LET of == SelectSeq(rows, LAMBDA r : r.name = nm)
    IN  SumSeq([i \in DOMAIN of |-> of[i].total_price])

QuantityOf(rows, nm) ==
    LET of == SelectSeq(rows, LAMBDA r : r.name = nm)
    IN  SumSeq([i \in DOMAIN of |-> of[i].quantity])

\* a ranking of distinct product names, each with its summed total_price and
\* quantity
RanksProducts(rows, ranking) ==
    /\ \A j, k \in DOMAIN ranking : j # k => ranking[j].name # ranking[k].name
    /\ \A k \in DOMAIN ranking :
            /\ ranking[k].name \in ProductNames(rows)
            /\ ranking[k].totalSales = TotalOf(rows, ranking[k].name)
            /\ ranking[k].quantity = QuantityOf(rows, ranking[k].name)

\* C24: on every fetched dashboard the sales are grouped by product name
\* with total_price and quantity summed; topProducts holds the (up to) 10
\* names with the largest sums in descending order, bottomProducts the (up
\* to) 10 names with the smallest sums in ascending order, both cut from one
\* sorted list; with at most 10 names bottomProducts is topProducts reversed.
C24_ProductRankings ==
    \A s \in Sessions :
        metrics[s].fetched =>
            LET rows == salesData[s]
                top == metrics[s].topProducts
                bottom == metrics[s].bottomProducts
                n == Cardinality(ProductNames(rows))
                size == IF n < RankingSize THEN n ELSE RankingSize
            IN  /\ Len(top) = size
                /\ Len(bottom) = size
                /\ RanksProducts(rows, top)
                /\ RanksProducts(rows, bottom)
                /\ \A k \in 1..(size - 1) :
                        /\ top[k].totalSales >= top[k + 1].totalSales
                        /\ bottom[k].totalSales <= bottom[k + 1].totalSales
                /\ \A nm \in ProductNames(rows), k \in 1..size :
                        /\ (\A j \in 1..size : top[j].name # nm)
                                => TotalOf(rows, nm) <= top[k].totalSales
                        /\ (\A j \in 1..size : bottom[j].name # nm)
                                => TotalOf(rows, nm) >= bottom[k].totalSales
                /\ \A j \in 1..size :
                        n + 1 - j <= size => top[j] = bottom[n + 1 - j]
                /\ n <= RankingSize => bottom = reverse(top)

\* a fetched dashboard over more than 10 product names with unequal sums, one
\* of them summed over two sales
C24_Witness ==
    LET rows == salesData["s1"]
        top == metrics["s1"].topProducts
    IN  /\ metrics["s1"].fetched
        /\ Cardinality(ProductNames(rows)) > RankingSize
        /\ Len(rows) > Cardinality(ProductNames(rows))
        /\ top[1].totalSales > top[RankingSize].totalSales
        /\ metrics["s1"].bottomProducts # reverse(top)

\* ------------------------------------------------------------- growth over two periods
\* One admin records cash and credit sales, with and without an account,
\* takes payments, and compares a date range with the range before it
NextGrowth ==
    \/ \E pg \in {"products", "sales", "credits", "dashboard"} : Navigate("s1", pg)
    \/ products = Empty /\ ProductCreate("s1", MaxStock, 1)
    \/ \E pr \in 1..MaxPrice, m \in {"cash", "credit"}, creditError \in BOOLEAN :
            SubmitSaleForm("s1", 0, "p1", 1, pr, m, TRUE, creditError)
    \/ \E c \in 1..MaxCredits : Payment("s1", c, 1)
    \/ \E from \in 0..MaxDay, to \in 0..MaxDay :
            from <= to /\ SetDateRange("s1", from, to)
    \/ Tick

SpecGrowth == Init /\ [][NextGrowth]_vars

\* the actual revenue of the rows of the window before: a sale not on credit
\* in full, a credit sale with an account by amount_paid / amount_owed (0
\* when amount_owed is not positive), a credit sale without an account 0
PreviousRevenue(rows) ==
    RatSumSeq([i \in DOMAIN rows |->
        IF rows[i].payment_method # "credit" THEN RatInt(rows[i].total_price)
        ELSE IF Len(rows[i].credits) = 0 THEN RatInt(0)
        ELSE IF rows[i].credits[1].amount_owed <= 0 THEN RatInt(0)
        ELSE Rat(rows[i].total_price * rows[i].credits[1].amount_paid,
                 rows[i].credits[1].amount_owed)])

\* C25: on every fetched dashboard salesGrowth is (actualRevenue - previous)
\* / previous * 100 when the previous period's actual revenue is greater than
\* 0, and 0 when it is 0.
C25_GrowthGuarded ==
    \A s \in Sessions :
        metrics[s].fetched =>
            LET prev == PreviousRevenue(prevSalesWithCredits[s])
                actual == metrics[s].actualRevenue
            IN  /\ prev.n >= 0
                /\ prev.n > 0 =>
                        metrics[s].salesGrowth
                            = Rat(100 * (actual.n * prev.d - prev.n * actual.d),
                                  actual.d * prev.n)
                /\ prev.n = 0 => metrics[s].salesGrowth = RatInt(0)

\* a dashboard whose previous period holds a part-paid credit sale and a
\* credit sale without an account, with a growth that is not 0
C25_Witness ==
    LET prev == prevSalesWithCredits["s1"]
    IN  /\ metrics["s1"].fetched
        /\ \E i \in DOMAIN prev :
                /\ prev[i].payment_method = "credit"
                /\ Len(prev[i].credits) > 0
                /\ prev[i].credits[1].amount_paid > 0
                /\ prev[i].credits[1].amount_paid < prev[i].credits[1].amount_owed
        /\ metrics["s1"].salesGrowth.n # 0

\* a dashboard whose previous period has sales but no actual revenue
C25_ZeroCase ==
    /\ metrics["s1"].fetched
    /\ prevSalesWithCredits["s1"] # <<>>
    /\ PreviousRevenue(prevSalesWithCredits["s1"]) = RatInt(0)
    /\ metrics["s1"].actualRevenue.n > 0

\* ------------------------------------------------------------- accounts and their sales
\* C26: in every reachable state the stored status of every credit account
\* is the status its amounts give: paid when amount_paid >= amount_owed,
\* partially_paid when 0 < amount_paid < amount_owed, otherwise unpaid; also
\* directly after the account is created for a credit sale whose total is 0.
C26_StatusIsDerived ==
    \A c \in DOMAIN credits :
        credits[c].status =
            (IF credits[c].amount_paid >= credits[c].amount_owed THEN "paid"
             ELSE IF credits[c].amount_paid > 0 THEN "partially_paid"
             ELSE "unpaid")

\* C27: in every reachable state the amount_owed of every credit account is
\* the total_price of the sale it references.
C27_OwedIsSaleTotal ==
    \A c \in DOMAIN credits :
        /\ credits[c].sale_id \in DOMAIN sales
        /\ credits[c].amount_owed = sales[credits[c].sale_id].total_price

\* C28: in every reachable state every credit account references a sale
\* whose payment_method is credit.
C28_AccountOnlyForCreditSale ==
    \A c \in DOMAIN credits :
        /\ credits[c].sale_id \in DOMAIN sales
        /\ sales[credits[c].sale_id].payment_method = "credit"

\* C29: a step that edits a sale leaves the sale's sale_date and business as
\* they were: only product, quantity, selling price, payment method and the
\* derived total_price change.
C29_EditKeepsSaleDate ==
    [][\A s \in Sessions, e \in 1..MaxSales, p \in ProductIds, q \in 1..MaxQty,
          pr \in 0..MaxPrice, m \in FormMethods, cf \in BOOLEAN :
            (SaleSubmit(s, e, p, q, pr, m, cf) /\ e \in DOMAIN sales /\ e \in DOMAIN sales')
                => /\ sales'[e].sale_date = sales[e].sale_date
                   /\ sales'[e].business_id = sales[e].business_id]_vars

\* ------------------------------------------------------------- users
\* the SELECT policy of profiles: the rows of the caller's own business
ProfileVisible(rows, caller, u) ==
    /\ caller \in DOMAIN rows
    /\ u \in DOMAIN rows
    /\ rows[u].business_id = rows[caller].business_id

\* auth.admin.deleteUser with the service role key
DeleteAuthUser(users, userId) == users \ {userId}

\* the edge function admin-delete-user, called with the caller's token: its
\* answer and the tables as it leaves them
admin_delete_user(caller, userId) ==
    LET kept == [authUsers |-> authUsers, profiles |-> profiles]
    IN  IF caller \notin authUsers
        THEN kept @@ [answer |-> "Unauthorized"]
        ELSE IF caller \notin DOMAIN profiles
        THEN kept @@ [answer |-> "UnableToVerify"]
        ELSE IF profiles[caller].role # "admin"
        THEN kept @@ [answer |-> "OnlyAdmins"]
        ELSE IF userId = caller
        THEN kept @@ [answer |-> "CannotDeleteOwnAccount"]
        ELSE IF ~ProfileVisible(profiles, caller, userId)
        THEN kept @@ [answer |-> "UserNotFound"]
        ELSE [answer |-> "success",
              profiles |-> [x \in DOMAIN profiles \ {userId} |-> profiles[x]],
              authUsers |-> DeleteAuthUser(authUsers, userId)]

\* createUser up to the loop (lines 43-87): the caller's profile is read,
\* auth.signUp inserts the account, and the trigger on_auth_user_created
\* inserts its profile in the same transaction.  A sign-up that needs no
\* e-mail confirmation returns a session, and the client is signed in as the
\* new account from then on.
CreateUserBegin(role, authError, returnsSession) ==
    /\ createUserCall.pc = "idle"
    /\ nextUserId <= MaxUsers
    /\ IF ~ProfileVisible(profiles, authSession, authSession)
       THEN /\ createUserCall' = [NoCall EXCEPT !.result = "NoBusinessInformation"]
            /\ UNCHANGED <<authUsers, profiles, nextUserId, authSession>>
       ELSE IF authError
       THEN /\ createUserCall' = [NoCall EXCEPT !.result = "AuthError"]
            /\ UNCHANGED <<authUsers, profiles, nextUserId, authSession>>
       ELSE /\ authUsers' = authUsers \cup {nextUserId}
            /\ profiles' = profiles @@
                    (nextUserId :> [role |-> role,
                                    business_id |-> profiles[authSession].business_id])
            /\ nextUserId' = nextUserId + 1
            /\ authSession' = IF returnsSession THEN nextUserId ELSE authSession
            /\ createUserCall' = [pc |-> "polling", user |-> nextUserId,
                                  attempts |-> 0, result |-> "none"]
    /\ UNCHANGED <<db, caches, toast, ledgers, clock>>

\* one turn of the loop of lines 94-125 up to its request: the select of the
\* profile comes back with the row, or with an error of the transport or
\* of .single() finding no row
PollProfile(fetchError) ==
    LET u == createUserCall.user
        found == ~fetchError /\ ProfileVisible(profiles, authSession, u)
    IN  /\ createUserCall.pc = "polling"
        /\ createUserCall.attempts < maxAttempts
        /\ createUserCall' =
                IF found
                THEN [NoCall EXCEPT !.user = u, !.result = "Created"]
                ELSE [createUserCall EXCEPT
                        !.attempts = @ + 1,
                        !.pc = IF createUserCall.attempts + 1 = maxAttempts
                               THEN "cleanup" ELSE "polling"]
        /\ UNCHANGED <<db, caches, toast, ledgers, clock,
                       authUsers, profiles, nextUserId, authSession>>

\* lines 111-124: after the last poll the function admin-delete-user is
\* invoked, its answer is not looked at, and the error is thrown
CleanUp(invokeError) ==
    LET u == createUserCall.user
        r == admin_delete_user(authSession, u)
    IN  /\ createUserCall.pc = "cleanup"
        /\ authUsers' = IF invokeError THEN authUsers ELSE r.authUsers
        /\ profiles' = IF invokeError THEN profiles ELSE r.profiles
        /\ createUserCall' = [NoCall EXCEPT !.user = u, !.result = "ProfileError"]
        /\ UNCHANGED <<db, caches, toast, ledgers, clock, nextUserId, authSession>>

\* userApi.deleteUser (lines 169-200) from the Users page
DeleteUser(u) ==
    LET r == admin_delete_user(authSession, u)
    IN  /\ createUserCall.pc = "idle"
        /\ u \in DOMAIN profiles
        /\ authUsers' = r.authUsers
        /\ profiles' = r.profiles
        /\ createUserCall' = [NoCall EXCEPT !.result =
                IF r.answer = "success" THEN "Deleted" ELSE r.answer]
        /\ UNCHANGED <<db, caches, toast, ledgers, clock, nextUserId, authSession>>

\* DELETE FROM profiles WHERE user_id = u, sent with the owner's token from
\* another tab: the DELETE policy lets an admin's statement match the
\* profiles of the admin's business
RestDeleteProfile(u) ==
    /\ u # Owner
    /\ u \in DOMAIN profiles
    /\ ProfileVisible(profiles, Owner, u)
    /\ profiles[Owner].role = "admin"
    /\ profiles' = [x \in DOMAIN profiles \ {u} |-> profiles[x]]
    /\ UNCHANGED <<db, caches, toast, ledgers, clock,
                   authUsers, nextUserId, authSession, createUserCall>>

\* the browser signs in again as the owner
SignInAsOwner ==
    /\ createUserCall.pc = "idle"
    /\ authSession # Owner
    /\ authSession' = Owner
    /\ UNCHANGED <<db, caches, toast, ledgers, clock,
                   authUsers, profiles, nextUserId, createUserCall>>

NextUser ==
    \/ \E role \in {"admin", "user"}, authError \in BOOLEAN, returnsSession \in BOOLEAN :
            CreateUserBegin(role, authError, returnsSession)
    \/ \E fetchError \in BOOLEAN : PollProfile(fetchError)
    \/ \E invokeError \in BOOLEAN : CleanUp(invokeError)
    \/ \E u \in 0..MaxUsers : DeleteUser(u)
    \/ \E u \in 1..MaxUsers : RestDeleteProfile(u)
    \/ SignInAsOwner

SpecUser == Init /\ [][NextUser]_vars

\* C30: createUser polls for the profile at most 5 times, and the step that
\* ends it after the last poll without a profile reports an error and leaves
\* no account of the user it signed up.
C30_FailedCreateRemovesAccount ==
    /\ [](createUserCall.attempts <= maxAttempts)
    /\ [][(createUserCall.pc = "cleanup" /\ createUserCall'.pc = "idle")
            => /\ createUserCall'.result = "ProfileError"
               /\ createUserCall.user \notin authUsers']_vars

\* the wait never goes beyond 5 polls, and a call that gives up has made 5
C30_PollsBounded ==
    /\ createUserCall.attempts <= maxAttempts
    /\ createUserCall.pc = "polling" => createUserCall.attempts < maxAttempts
    /\ createUserCall.pc = "cleanup" => createUserCall.attempts = maxAttempts

====
